---- MODULE Spec2Model ----
(***************************************************************************)
(* Instruction decoder of the NES emulator (src/cpu/decoder.rs).           *)
(* decode_opcode maps an opcode byte to the tuple                          *)
(*   (Instructions, AddressingMode, bytes, cycles, OopsCycle)              *)
(* or, for a byte with no match arm, logs an error and panics.             *)
(***************************************************************************)
EXTENDS Integers, Naturals, Sequences, FiniteSets, TLC

\* ------------------------------------------------------------------ bounds
\* index register values (X or Y, a u8) explored by the cycle accountant
MaxIndex == 1

\* ------------------------------------------------------------------ types
Byte == 0..255

\* enum Instructions
Instructions ==
    {"ADC", "AND", "ASL", "BCC", "BCS", "BEQ", "BIT", "BMI", "BNE", "BPL",
     "BRK", "BVC", "BVS", "CLC", "CLD", "CLI", "CLV", "CMP", "CPX", "CPY",
     "DEC", "DEX", "DEY", "EOR", "INC", "INX", "INY", "JMP", "JSR", "LDA",
     "LDX", "LDY", "LSR", "NOP", "ORA", "PHA", "PHP", "PLA", "PLP", "ROL",
     "ROR", "RTI", "RTS", "SBC", "SEC", "SED", "SEI", "STA", "STX", "STY",
     "TAX", "TAY", "TSX", "TXA", "TXS", "TYA"}

\* enum AddressingMode
AddressingMode ==
    {"IMPLIED", "ABSOLUTE", "ABSOLUTEX", "ABSOLUTEY", "ZEROPAGE", "ZEROPAGEX",
     "ZEROPAGEY", "RELATIVE", "ACCUMULATOR", "INDIRECT", "INDIRECTX",
     "INDIRECTY", "IMMEDIATE"}

\* enum OopsCycle
OopsCycle == {"NONE", "PageBoundryCrossed", "BranchOccursOn"}

\* decode_opcode's return type; the fields of the returned tuple
Descriptor == Instructions \X AddressingMode \X Byte \X Byte \X OopsCycle
InstrOf(d) == d[1]
ModeOf(d) == d[2]
BytesOf(d) == d[3]
CyclesOf(d) == d[4]
OopsOf(d) == d[5]

\* the wildcard arm returns nothing: it never yields a tuple
NoDescriptor == <<>>

\* the match arms of decode_opcode, one per opcode byte, as written
OpcodeArms ==
  [opcode \in Byte |->
    CASE opcode =   0 -> <<"BRK", "IMPLIED", 1, 2, "NONE">>   \* 0x00
      [] opcode =   1 -> <<"ORA", "INDIRECTX", 2, 6, "NONE">>   \* 0x01
      [] opcode =   5 -> <<"ORA", "ZEROPAGE", 2, 3, "NONE">>   \* 0x05
      [] opcode =   6 -> <<"ASL", "ZEROPAGE", 2, 5, "NONE">>   \* 0x06
      [] opcode =   8 -> <<"PHP", "IMPLIED", 1, 3, "NONE">>   \* 0x08
      [] opcode =   9 -> <<"ORA", "IMMEDIATE", 2, 2, "NONE">>   \* 0x09
      [] opcode =  10 -> <<"ASL", "ACCUMULATOR", 1, 2, "NONE">>   \* 0x0A
      [] opcode =  13 -> <<"ORA", "ABSOLUTE", 3, 4, "NONE">>   \* 0x0D
      [] opcode =  14 -> <<"ASL", "ABSOLUTE", 3, 6, "NONE">>   \* 0x0E
      [] opcode =  16 -> <<"BPL", "RELATIVE", 2, 2, "BranchOccursOn">>   \* 0x10
      [] opcode =  17 -> <<"ORA", "INDIRECTY", 2, 5, "PageBoundryCrossed">>   \* 0x11
      [] opcode =  21 -> <<"ORA", "ZEROPAGEX", 2, 4, "NONE">>   \* 0x15
      [] opcode =  22 -> <<"ASL", "ZEROPAGEX", 2, 6, "NONE">>   \* 0x16
      [] opcode =  24 -> <<"CLC", "IMPLIED", 1, 2, "NONE">>   \* 0x18
      [] opcode =  25 -> <<"ORA", "ABSOLUTEY", 3, 4, "PageBoundryCrossed">>   \* 0x19
      [] opcode =  29 -> <<"ORA", "ABSOLUTEX", 3, 4, "PageBoundryCrossed">>   \* 0x1D
      [] opcode =  30 -> <<"ASL", "ABSOLUTEX", 3, 7, "NONE">>   \* 0x1E
      [] opcode =  32 -> <<"JSR", "ABSOLUTE", 3, 6, "NONE">>   \* 0x20
      [] opcode =  33 -> <<"AND", "INDIRECTX", 2, 6, "NONE">>   \* 0x21
      [] opcode =  36 -> <<"BIT", "ZEROPAGE", 2, 3, "NONE">>   \* 0x24
      [] opcode =  37 -> <<"AND", "ZEROPAGE", 2, 3, "NONE">>   \* 0x25
      [] opcode =  38 -> <<"ROL", "ZEROPAGE", 2, 5, "NONE">>   \* 0x26
      [] opcode =  40 -> <<"PLP", "IMPLIED", 1, 4, "NONE">>   \* 0x28
      [] opcode =  41 -> <<"AND", "IMMEDIATE", 2, 2, "NONE">>   \* 0x29
      [] opcode =  42 -> <<"ROL", "ACCUMULATOR", 1, 2, "NONE">>   \* 0x2A
      [] opcode =  44 -> <<"BIT", "ABSOLUTE", 3, 4, "NONE">>   \* 0x2C
      [] opcode =  45 -> <<"AND", "ABSOLUTE", 3, 4, "NONE">>   \* 0x2D
      [] opcode =  46 -> <<"ROL", "ABSOLUTE", 3, 6, "NONE">>   \* 0x2E
      [] opcode =  48 -> <<"BMI", "RELATIVE", 2, 2, "BranchOccursOn">>   \* 0x30
      [] opcode =  49 -> <<"AND", "INDIRECTY", 2, 5, "PageBoundryCrossed">>   \* 0x31
      [] opcode =  53 -> <<"AND", "ZEROPAGEX", 2, 4, "NONE">>   \* 0x35
      [] opcode =  54 -> <<"ROL", "ZEROPAGEX", 2, 6, "NONE">>   \* 0x36
      [] opcode =  56 -> <<"SEC", "IMPLIED", 1, 2, "NONE">>   \* 0x38
      [] opcode =  57 -> <<"AND", "ABSOLUTEY", 3, 4, "PageBoundryCrossed">>   \* 0x39
      [] opcode =  61 -> <<"AND", "ABSOLUTEX", 3, 4, "PageBoundryCrossed">>   \* 0x3D
      [] opcode =  62 -> <<"ROL", "ABSOLUTEX", 3, 7, "NONE">>   \* 0x3E
      [] opcode =  64 -> <<"RTI", "IMMEDIATE", 1, 6, "NONE">>   \* 0x40
      [] opcode =  65 -> <<"EOR", "INDIRECTX", 2, 6, "NONE">>   \* 0x41
      [] opcode =  69 -> <<"EOR", "ZEROPAGE", 2, 3, "NONE">>   \* 0x45
      [] opcode =  70 -> <<"LSR", "ZEROPAGE", 2, 5, "NONE">>   \* 0x46
      [] opcode =  72 -> <<"PHA", "IMPLIED", 1, 3, "NONE">>   \* 0x48
      [] opcode =  73 -> <<"EOR", "IMMEDIATE", 2, 2, "NONE">>   \* 0x49
      [] opcode =  74 -> <<"LSR", "ACCUMULATOR", 1, 2, "NONE">>   \* 0x4A
      [] opcode =  76 -> <<"JMP", "ABSOLUTE", 3, 3, "NONE">>   \* 0x4C
      [] opcode =  77 -> <<"EOR", "ABSOLUTE", 3, 4, "NONE">>   \* 0x4D
      [] opcode =  78 -> <<"LSR", "ABSOLUTE", 3, 6, "NONE">>   \* 0x4E
      [] opcode =  80 -> <<"BVC", "RELATIVE", 2, 2, "BranchOccursOn">>   \* 0x50
      [] opcode =  81 -> <<"EOR", "INDIRECTY", 2, 5, "BranchOccursOn">>   \* 0x51
      [] opcode =  85 -> <<"EOR", "ZEROPAGEX", 2, 4, "NONE">>   \* 0x55
      [] opcode =  86 -> <<"LSR", "ZEROPAGEX", 2, 6, "NONE">>   \* 0x56
      [] opcode =  88 -> <<"CLI", "IMPLIED", 1, 2, "NONE">>   \* 0x58
      [] opcode =  89 -> <<"EOR", "ABSOLUTEY", 3, 4, "PageBoundryCrossed">>   \* 0x59
      [] opcode =  93 -> <<"EOR", "ABSOLUTEX", 3, 4, "PageBoundryCrossed">>   \* 0x5D
      [] opcode =  94 -> <<"LSR", "ABSOLUTEX", 3, 7, "NONE">>   \* 0x5E
      [] opcode =  96 -> <<"RTS", "IMPLIED", 1, 6, "NONE">>   \* 0x60
      [] opcode =  97 -> <<"ADC", "INDIRECTX", 2, 6, "NONE">>   \* 0x61
      [] opcode = 101 -> <<"ADC", "ZEROPAGE", 2, 3, "NONE">>   \* 0x65
      [] opcode = 102 -> <<"ROR", "ZEROPAGE", 2, 5, "NONE">>   \* 0x66
      [] opcode = 104 -> <<"PLA", "IMPLIED", 1, 4, "NONE">>   \* 0x68
      [] opcode = 105 -> <<"ADC", "IMMEDIATE", 2, 2, "NONE">>   \* 0x69
      [] opcode = 106 -> <<"ROR", "ACCUMULATOR", 1, 2, "NONE">>   \* 0x6A
      [] opcode = 108 -> <<"JMP", "INDIRECT", 3, 5, "NONE">>   \* 0x6C
      [] opcode = 109 -> <<"ADC", "ABSOLUTE", 3, 4, "NONE">>   \* 0x6D
      [] opcode = 110 -> <<"ROR", "ABSOLUTE", 3, 6, "NONE">>   \* 0x6E
      [] opcode = 112 -> <<"BVS", "RELATIVE", 2, 2, "BranchOccursOn">>   \* 0x70
      [] opcode = 113 -> <<"ADC", "INDIRECTY", 2, 5, "PageBoundryCrossed">>   \* 0x71
      [] opcode = 117 -> <<"ADC", "ZEROPAGEX", 2, 4, "NONE">>   \* 0x75
      [] opcode = 118 -> <<"ROR", "ZEROPAGEX", 2, 6, "NONE">>   \* 0x76
      [] opcode = 120 -> <<"SEI", "IMPLIED", 1, 2, "NONE">>   \* 0x78
      [] opcode = 121 -> <<"ADC", "ABSOLUTEY", 3, 4, "PageBoundryCrossed">>   \* 0x79
      [] opcode = 125 -> <<"ADC", "ABSOLUTEX", 3, 4, "PageBoundryCrossed">>   \* 0x7D
      [] opcode = 126 -> <<"ROR", "ABSOLUTEX", 3, 7, "NONE">>   \* 0x7E
      [] opcode = 129 -> <<"STA", "INDIRECTX", 2, 6, "NONE">>   \* 0x81
      [] opcode = 132 -> <<"STY", "ZEROPAGE", 2, 3, "NONE">>   \* 0x84
      [] opcode = 133 -> <<"STA", "ZEROPAGE", 2, 3, "NONE">>   \* 0x85
      [] opcode = 134 -> <<"STX", "ZEROPAGE", 2, 3, "NONE">>   \* 0x86
      [] opcode = 136 -> <<"DEY", "IMPLIED", 1, 2, "NONE">>   \* 0x88
      [] opcode = 138 -> <<"TXA", "IMPLIED", 1, 2, "NONE">>   \* 0x8A
      [] opcode = 140 -> <<"STY", "ABSOLUTE", 3, 4, "NONE">>   \* 0x8C
      [] opcode = 141 -> <<"STA", "ABSOLUTE", 3, 4, "NONE">>   \* 0x8D
      [] opcode = 142 -> <<"STX", "ABSOLUTE", 3, 4, "NONE">>   \* 0x8E
      [] opcode = 144 -> <<"BCC", "RELATIVE", 2, 2, "BranchOccursOn">>   \* 0x90
      [] opcode = 145 -> <<"STA", "INDIRECTY", 2, 6, "NONE">>   \* 0x91
      [] opcode = 148 -> <<"STY", "ZEROPAGEX", 2, 4, "NONE">>   \* 0x94
      [] opcode = 149 -> <<"STA", "ZEROPAGEX", 2, 4, "NONE">>   \* 0x95
      [] opcode = 150 -> <<"STX", "ZEROPAGEY", 2, 4, "NONE">>   \* 0x96
      [] opcode = 152 -> <<"TYA", "IMPLIED", 1, 2, "NONE">>   \* 0x98
      [] opcode = 153 -> <<"STA", "ABSOLUTEY", 3, 5, "NONE">>   \* 0x99
      [] opcode = 154 -> <<"TXS", "IMPLIED", 1, 2, "NONE">>   \* 0x9A
      [] opcode = 157 -> <<"STA", "ABSOLUTEX", 3, 5, "NONE">>   \* 0x9D
      [] opcode = 160 -> <<"LDY", "IMMEDIATE", 2, 2, "NONE">>   \* 0xA0
      [] opcode = 161 -> <<"LDA", "INDIRECTX", 2, 6, "NONE">>   \* 0xA1
      [] opcode = 162 -> <<"LDX", "IMMEDIATE", 2, 2, "NONE">>   \* 0xA2
      [] opcode = 164 -> <<"LDY", "ZEROPAGE", 2, 3, "NONE">>   \* 0xA4
      [] opcode = 165 -> <<"LDA", "ZEROPAGE", 2, 3, "NONE">>   \* 0xA5
      [] opcode = 166 -> <<"LDX", "ZEROPAGE", 2, 3, "NONE">>   \* 0xA6
      [] opcode = 168 -> <<"TAY", "IMPLIED", 1, 2, "NONE">>   \* 0xA8
      [] opcode = 169 -> <<"LDA", "IMMEDIATE", 2, 2, "NONE">>   \* 0xA9
      [] opcode = 170 -> <<"TAX", "IMPLIED", 1, 2, "NONE">>   \* 0xAA
      [] opcode = 172 -> <<"LDY", "ABSOLUTE", 3, 4, "NONE">>   \* 0xAC
      [] opcode = 173 -> <<"LDA", "ABSOLUTE", 3, 4, "NONE">>   \* 0xAD
      [] opcode = 174 -> <<"LDX", "ABSOLUTE", 3, 4, "NONE">>   \* 0xAE
      [] opcode = 176 -> <<"BCS", "RELATIVE", 2, 2, "BranchOccursOn">>   \* 0xB0
      [] opcode = 177 -> <<"LDA", "INDIRECTY", 2, 5, "PageBoundryCrossed">>   \* 0xB1
      [] opcode = 180 -> <<"LDY", "ZEROPAGEX", 2, 4, "NONE">>   \* 0xB4
      [] opcode = 181 -> <<"LDA", "ZEROPAGEX", 2, 4, "NONE">>   \* 0xB5
      [] opcode = 182 -> <<"LDX", "ZEROPAGEY", 2, 4, "NONE">>   \* 0xB6
      [] opcode = 184 -> <<"CLV", "IMPLIED", 1, 2, "NONE">>   \* 0xB8
      [] opcode = 185 -> <<"LDA", "ABSOLUTEY", 3, 4, "PageBoundryCrossed">>   \* 0xB9
      [] opcode = 186 -> <<"TSX", "IMPLIED", 1, 2, "NONE">>   \* 0xBA
      [] opcode = 188 -> <<"LDY", "ABSOLUTEX", 3, 4, "PageBoundryCrossed">>   \* 0xBC
      [] opcode = 189 -> <<"LDA", "ABSOLUTEX", 3, 4, "PageBoundryCrossed">>   \* 0xBD
      [] opcode = 190 -> <<"LDX", "ABSOLUTEY", 3, 4, "PageBoundryCrossed">>   \* 0xBE
      [] opcode = 192 -> <<"CPY", "IMMEDIATE", 2, 2, "NONE">>   \* 0xC0
      [] opcode = 193 -> <<"CMP", "INDIRECTX", 2, 6, "NONE">>   \* 0xC1
      [] opcode = 196 -> <<"CPY", "ZEROPAGE", 2, 3, "NONE">>   \* 0xC4
      [] opcode = 197 -> <<"CMP", "ZEROPAGE", 2, 3, "NONE">>   \* 0xC5
      [] opcode = 198 -> <<"DEC", "ZEROPAGE", 2, 5, "NONE">>   \* 0xC6
      [] opcode = 200 -> <<"INY", "IMPLIED", 1, 2, "NONE">>   \* 0xC8
      [] opcode = 201 -> <<"CMP", "IMMEDIATE", 2, 2, "NONE">>   \* 0xC9
      [] opcode = 202 -> <<"DEX", "IMPLIED", 1, 2, "NONE">>   \* 0xCA
      [] opcode = 204 -> <<"CPY", "ABSOLUTE", 3, 4, "NONE">>   \* 0xCC
      [] opcode = 205 -> <<"CMP", "ABSOLUTE", 3, 4, "NONE">>   \* 0xCD
      [] opcode = 206 -> <<"DEC", "ABSOLUTE", 3, 6, "NONE">>   \* 0xCE
      [] opcode = 208 -> <<"BNE", "RELATIVE", 2, 2, "BranchOccursOn">>   \* 0xD0
      [] opcode = 209 -> <<"CMP", "INDIRECTY", 2, 5, "PageBoundryCrossed">>   \* 0xD1
      [] opcode = 213 -> <<"CMP", "ZEROPAGEX", 2, 4, "NONE">>   \* 0xD5
      [] opcode = 214 -> <<"DEC", "ZEROPAGEX", 2, 6, "NONE">>   \* 0xD6
      [] opcode = 216 -> <<"CLD", "IMPLIED", 1, 2, "NONE">>   \* 0xD8
      [] opcode = 217 -> <<"CMP", "ABSOLUTEY", 3, 4, "PageBoundryCrossed">>   \* 0xD9
      [] opcode = 221 -> <<"CMP", "ABSOLUTEX", 3, 4, "PageBoundryCrossed">>   \* 0xDD
      [] opcode = 222 -> <<"DEC", "ABSOLUTEX", 3, 7, "NONE">>   \* 0xDE
      [] opcode = 224 -> <<"CPX", "IMMEDIATE", 2, 2, "NONE">>   \* 0xE0
      [] opcode = 225 -> <<"SBC", "INDIRECTX", 2, 6, "NONE">>   \* 0xE1
      [] opcode = 228 -> <<"CPX", "ZEROPAGE", 2, 3, "NONE">>   \* 0xE4
      [] opcode = 229 -> <<"SBC", "ZEROPAGE", 2, 3, "NONE">>   \* 0xE5
      [] opcode = 230 -> <<"INC", "ZEROPAGE", 2, 5, "NONE">>   \* 0xE6
      [] opcode = 232 -> <<"INX", "IMPLIED", 1, 2, "NONE">>   \* 0xE8
      [] opcode = 233 -> <<"SBC", "IMMEDIATE", 2, 2, "NONE">>   \* 0xE9
      [] opcode = 234 -> <<"NOP", "IMPLIED", 1, 2, "NONE">>   \* 0xEA
      [] opcode = 236 -> <<"CPX", "ABSOLUTE", 3, 4, "NONE">>   \* 0xEC
      [] opcode = 237 -> <<"SBC", "ABSOLUTE", 3, 4, "NONE">>   \* 0xED
      [] opcode = 238 -> <<"INC", "ABSOLUTE", 3, 6, "NONE">>   \* 0xEE
      [] opcode = 240 -> <<"BEQ", "RELATIVE", 2, 2, "BranchOccursOn">>   \* 0xF0
      [] opcode = 241 -> <<"SBC", "INDIRECTY", 2, 5, "PageBoundryCrossed">>   \* 0xF1
      [] opcode = 245 -> <<"SBC", "ZEROPAGEX", 2, 4, "NONE">>   \* 0xF5
      [] opcode = 246 -> <<"INC", "ZEROPAGEX", 2, 6, "NONE">>   \* 0xF6
      [] opcode = 248 -> <<"SED", "IMPLIED", 1, 2, "NONE">>   \* 0xF8
      [] opcode = 249 -> <<"SBC", "ABSOLUTEY", 3, 4, "PageBoundryCrossed">>   \* 0xF9
      [] opcode = 253 -> <<"SBC", "ABSOLUTEX", 3, 4, "PageBoundryCrossed">>   \* 0xFD
      [] opcode = 254 -> <<"INC", "ABSOLUTEX", 3, 7, "NONE">>   \* 0xFE
      [] OTHER -> NoDescriptor  ]

\* ------------------------------------------------- variants of decode_opcode
\* an extra arm for the undocumented byte 0x02
decode_opcode_extra_arm(opcode) ==
    IF opcode = 2 THEN <<"NOP", "IMPLIED", 1, 2, "NONE">> ELSE OpcodeArms[opcode]

\* BEQ transcribed with 3 base cycles
decode_opcode_beq_cycles(opcode) ==
    IF opcode = 240 THEN <<"BEQ", "RELATIVE", 2, 3, "BranchOccursOn">>
    ELSE OpcodeArms[opcode]

\* LDA absolute,X transcribed without its page-crossing tag
decode_opcode_lda_absx_untagged(opcode) ==
    IF opcode = 189 THEN <<"LDA", "ABSOLUTEX", 3, 4, "NONE">> ELSE OpcodeArms[opcode]

\* ORA zeropage,X transcribed with a page-crossing tag
decode_opcode_zpx_tagged(opcode) ==
    IF opcode = 21 THEN <<"ORA", "ZEROPAGEX", 2, 4, "PageBoundryCrossed">>
    ELSE OpcodeArms[opcode]

\* ASL absolute,X transcribed with 8 cycles
decode_opcode_asl_absx_cycles(opcode) ==
    IF opcode = 30 THEN <<"ASL", "ABSOLUTEX", 3, 8, "NONE">> ELSE OpcodeArms[opcode]

\* JSR transcribed with the INDIRECT mode
decode_opcode_jsr_indirect(opcode) ==
    IF opcode = 32 THEN <<"JSR", "INDIRECT", 3, 6, "NONE">> ELSE OpcodeArms[opcode]

\* INY transcribed with 2 bytes
decode_opcode_iny_bytes(opcode) ==
    IF opcode = 200 THEN <<"INY", "IMPLIED", 2, 2, "NONE">> ELSE OpcodeArms[opcode]

\* ------------------------------------------------------------ decode_opcode
\* pub fn decode_opcode(opcode: u8): the value of the matching arm, or
\* NoDescriptor when only the wildcard arm matches
decode_opcode(opcode) == OpcodeArms[opcode]

\* ------------------------------------------------------------ error report
HexDigits ==
    <<"0", "1", "2", "3", "4", "5", "6", "7", "8", "9", "A", "B", "C", "D", "E", "F">>

\* {:X} of a u8: upper-case hexadecimal without leading zeros
RECURSIVE UpperHex(_)
UpperHex(n) ==
    IF n < 16 THEN <<HexDigits[n + 1]>>
    ELSE UpperHex(n \div 16) \o <<HexDigits[(n % 16) + 1]>>

\* {:#X}: the alternate form prefixes 0x
AlternateUpperHex(n) == <<"0", "x">> \o UpperHex(n)

\* a report that formats only the low nibble of the byte
error_low_nibble(opcode) ==
    [level |-> "ERROR",
     text  |-> "Could not decode instruction, opcode: ",
     arg   |-> AlternateUpperHex(opcode % 16)]

\* error!("Could not decode instruction, opcode: {:#X}", opcode)
error(opcode) ==
    [level |-> "ERROR",
     text  |-> "Could not decode instruction, opcode: ",
     arg   |-> AlternateUpperHex(opcode)]

\* ---------------------------------------------------------- cycle accountant
\* the executor's cycle accounting, applied to a returned descriptor
PageOf(addr) == addr \div 256

\* 16-bit base address plus an 8-bit index register, wrapping at 2^16
IndexedAddress(base, index) == (base + index) % 65536

\* adding the index changes the high byte of the address
PageCrossed(base, index) == PageOf(IndexedAddress(base, index)) # PageOf(base)

\* the operand byte of a relative branch is a signed 8-bit offset
Signed8(b) == IF b >= 128 THEN b - 256 ELSE b

\* the offset is added to the address of the instruction following the branch
BranchTarget(next, offset) == (next + Signed8(offset) + 65536) % 65536

DifferentPage(next, offset) == PageOf(BranchTarget(next, offset)) # PageOf(next)

FinalCycles(base, policy, crossed, taken, different) ==
    CASE policy = "NONE" -> base
      [] policy = "PageBoundryCrossed" -> base + (IF crossed THEN 1 ELSE 0)
      [] policy = "BranchOccursOn" ->
            IF ~taken THEN base
            ELSE IF different THEN base + 2 ELSE base + 1

\* ------------------------------------------------------------------- state
VARIABLES
    pc,       \* where the program is: idle, returned, charged, error, panicked
    opcode,   \* argument of the current / last decode_opcode call
    result,   \* tuple returned by the last call, NoDescriptor if none
    log,      \* records emitted through the log crate
    facts,    \* runtime facts found by the executor while resolving the operand
    charged,  \* cycles charged for the last decoded instruction, 0 if none
    program,  \* the loader main called, "none" before it is called
    rom,      \* bytes the loader wrote to rom_memory from offset 0; the rest is 0
    lines,    \* assembly_lines_amount: the count the loader returned
    romOffset, \* offset in rom_memory of the next instruction
    steps     \* instructions decoded from rom_memory so far

\* the state of main's program run
walkVars == <<program, rom, lines, romOffset, steps>>

vars == <<pc, opcode, result, log, facts, charged, program, rom, lines, romOffset, steps>>

\* addresses handed to the cycle accountant: base / pointer address for the
\* indexed modes, address of the following instruction for branches
Addresses == {255, 8192, 8447, 65535}

\* operand bytes of a relative branch: +1 and -1
OffsetBytes == {1, 255}

NoFacts == [base |-> 0, index |-> 0, taken |-> FALSE, offset |-> 0]

Facts == [base : Addresses, index : 0..MaxIndex, taken : BOOLEAN, offset : OffsetBytes]

\* main: the logger is installed, nothing decoded yet
Init ==
    /\ pc = "idle"
    /\ opcode = 0
    /\ result = NoDescriptor
    /\ log = <<>>
    /\ facts = NoFacts
    /\ charged = 0
    /\ program = "none"
    /\ rom = <<>>
    /\ lines = 0
    /\ romOffset = 0
    /\ steps = 0

\* the process is alive and the caller may decode another byte
CanCall == pc \in {"idle", "returned", "charged"}

\* decode_opcode(b) matches one of the 151 arms and returns its tuple
DecodeReturn(b) ==
    /\ CanCall
    /\ decode_opcode(b) # NoDescriptor
    /\ opcode' = b
    /\ result' = decode_opcode(b)
    /\ pc' = "returned"
    /\ facts' = NoFacts
    /\ charged' = 0
    /\ UNCHANGED log
    /\ UNCHANGED walkVars

\* decode_opcode(b) falls to the wildcard arm: first statement, error!(..)
DecodeError(b) ==
    /\ CanCall
    /\ decode_opcode(b) = NoDescriptor
    /\ opcode' = b
    /\ result' = NoDescriptor
    /\ log' = Append(log, error(b))
    /\ pc' = "error"
    /\ facts' = NoFacts
    /\ charged' = 0
    /\ UNCHANGED walkVars

\* second statement of the wildcard arm: panic!(); the process ends
DecodePanic ==
    /\ pc = "error"
    /\ pc' = "panicked"
    /\ UNCHANGED <<opcode, result, log, facts, charged>>
    /\ UNCHANGED walkVars

\* the executor resolves the operand and charges the instruction's cycles
ChargeCycles(f) ==
    /\ pc = "returned"
    /\ facts' = f
    /\ charged' = FinalCycles(CyclesOf(result), OopsOf(result),
                              PageCrossed(f.base, f.index), f.taken,
                              DifferentPage(f.base, f.offset))
    /\ pc' = "charged"
    /\ UNCHANGED <<opcode, result, log>>
    /\ UNCHANGED walkVars

Next ==
    \/ \E b \in Byte : DecodeReturn(b)
    \/ \E b \in Byte : DecodeError(b)
    \/ DecodePanic
    \/ \E f \in Facts : ChargeCycles(f)

Spec == Init /\ [][Next]_vars

TypeOK ==
    /\ pc \in {"idle", "returned", "charged", "error", "panicked"}
    /\ opcode \in Byte
    /\ result = NoDescriptor \/ result \in Descriptor
    /\ Len(log) <= 1
    /\ facts = NoFacts \/ facts \in Facts
    /\ charged \in 0..9

\* ------------------------------------------------------------ program run
\* value of one hexadecimal digit, either case
HexNibble(c) ==
    CASE c = "0" -> 0 [] c = "1" -> 1 [] c = "2" -> 2 [] c = "3" -> 3
      [] c = "4" -> 4 [] c = "5" -> 5 [] c = "6" -> 6 [] c = "7" -> 7
      [] c = "8" -> 8 [] c = "9" -> 9
      [] c \in {"a", "A"} -> 10 [] c \in {"b", "B"} -> 11
      [] c \in {"c", "C"} -> 12 [] c \in {"d", "D"} -> 13
      [] c \in {"e", "E"} -> 14 [] c \in {"f", "F"} -> 15

\* write_rom(rom, text): text is a blank-separated list of two-digit
\* hexadecimal bytes (here one pair of digits per byte); byte i is written at
\* ROM offset i
write_rom(text) ==
    [i \in 1..Len(text) |-> 16 * HexNibble(text[i][1]) + HexNibble(text[i][2])]

\* fn program_tolower: the bytes assigned to rom_memory[0..26], returns 16
program_tolower ==
    [rom |-> <<160, 0, 177, 128, 240, 17, 201, 65, 144, 6, 201, 88, 176, 2,
               9, 32, 145, 130, 200, 208, 237, 56, 96, 145, 130, 24, 96>>,
     count |-> 16]

\* fn program_helloworld: "a9 01 8d 00 02 a9 05 8d 01 02 a9 08 8d 02 02", returns 6
program_helloworld ==
    [rom |-> write_rom(<<
        <<"a", "9">>, <<"0", "1">>, <<"8", "d">>, <<"0", "0">>,
        <<"0", "2">>, <<"a", "9">>, <<"0", "5">>, <<"8", "d">>,
        <<"0", "1">>, <<"0", "2">>, <<"a", "9">>, <<"0", "8">>,
        <<"8", "d">>, <<"0", "2">>, <<"0", "2">> >>),
     count |-> 6]

\* fn load_program_stack_operations: "A9 8C 48 A9 AB 48 68 68 EA", returns 7
load_program_stack_operations ==
    [rom |-> write_rom(<<
        <<"A", "9">>, <<"8", "C">>, <<"4", "8">>, <<"A", "9">>,
        <<"A", "B">>, <<"4", "8">>, <<"6", "8">>, <<"6", "8">>,
        <<"E", "A">> >>),
     count |-> 7]

\* fn load_program_ADC: "D8 A9 09 18 69 02 F8 A9 09 18 69 02", returns 8
load_program_ADC ==
    [rom |-> write_rom(<<
        <<"D", "8">>, <<"A", "9">>, <<"0", "9">>, <<"1", "8">>,
        <<"6", "9">>, <<"0", "2">>, <<"F", "8">>, <<"A", "9">>,
        <<"0", "9">>, <<"1", "8">>, <<"6", "9">>, <<"0", "2">> >>),
     count |-> 8]

Programs ==
    {"program_tolower", "program_helloworld",
     "load_program_stack_operations", "load_program_ADC"}

Loader(p) ==
    CASE p = "program_tolower" -> program_tolower
      [] p = "program_helloworld" -> program_helloworld
      [] p = "load_program_stack_operations" -> load_program_stack_operations
      [] p = "load_program_ADC" -> load_program_ADC

\* rom_memory is [0; 65_536] before the loader writes its bytes
RomAt(i) == IF i < Len(rom) THEN rom[i + 1] ELSE 0

\* main: let assembly_lines_amount = <loader>(&mut rom_memory)
LoadProgram(p) ==
    /\ pc = "idle"
    /\ program = "none"
    /\ program' = p
    /\ rom' = Loader(p).rom
    /\ lines' = Loader(p).count
    /\ romOffset' = 0
    /\ steps' = 0
    /\ UNCHANGED <<pc, opcode, result, log, facts, charged>>

\* one pass of main's loop over the loaded program: decode the byte at the
\* offset and advance the offset by the descriptor's byte length; a byte with
\* no arm is reported and the process panics
DecodeNext ==
    /\ CanCall
    /\ program # "none"
    /\ steps < lines
    /\ opcode' = RomAt(romOffset)
    /\ result' = decode_opcode(RomAt(romOffset))
    /\ facts' = NoFacts
    /\ charged' = 0
    /\ steps' = steps + 1
    /\ IF decode_opcode(RomAt(romOffset)) = NoDescriptor
         THEN /\ log' = Append(log, error(RomAt(romOffset)))
              /\ pc' = "panicked"
              /\ UNCHANGED romOffset
         ELSE /\ pc' = "returned"
              /\ romOffset' = (romOffset + BytesOf(decode_opcode(RomAt(romOffset)))) % 65536
              /\ UNCHANGED log
    /\ UNCHANGED <<program, rom, lines>>

NextRun ==
    \/ \E p \in Programs : LoadProgram(p)
    \/ DecodeNext
    \/ \E f \in Facts : ChargeCycles(f)

SpecRun == Init /\ [][NextRun]_vars

\* ======================================================= reference and claims
\* The published 6502 instruction set table cited at the head of decoder.rs
\* (https://www.masswerk.at/6502/6502_instruction_set.html): mnemonic,
\* addressing mode, bytes, cycles, and the cycle footnote (* = add 1 if page
\* boundary is crossed, ** = branch timing) for the 151 documented opcodes.
Reference6502 ==
  [op \in Byte |->
    CASE op =   0 -> <<"BRK", "IMPLIED", 1, 7, "NONE">>   \* 0x00
      [] op =   1 -> <<"ORA", "INDIRECTX", 2, 6, "NONE">>   \* 0x01
      [] op =   5 -> <<"ORA", "ZEROPAGE", 2, 3, "NONE">>   \* 0x05
      [] op =   6 -> <<"ASL", "ZEROPAGE", 2, 5, "NONE">>   \* 0x06
      [] op =   8 -> <<"PHP", "IMPLIED", 1, 3, "NONE">>   \* 0x08
      [] op =   9 -> <<"ORA", "IMMEDIATE", 2, 2, "NONE">>   \* 0x09
      [] op =  10 -> <<"ASL", "ACCUMULATOR", 1, 2, "NONE">>   \* 0x0A
      [] op =  13 -> <<"ORA", "ABSOLUTE", 3, 4, "NONE">>   \* 0x0D
      [] op =  14 -> <<"ASL", "ABSOLUTE", 3, 6, "NONE">>   \* 0x0E
      [] op =  16 -> <<"BPL", "RELATIVE", 2, 2, "BranchOccursOn">>   \* 0x10
      [] op =  17 -> <<"ORA", "INDIRECTY", 2, 5, "PageBoundryCrossed">>   \* 0x11
      [] op =  21 -> <<"ORA", "ZEROPAGEX", 2, 4, "NONE">>   \* 0x15
      [] op =  22 -> <<"ASL", "ZEROPAGEX", 2, 6, "NONE">>   \* 0x16
      [] op =  24 -> <<"CLC", "IMPLIED", 1, 2, "NONE">>   \* 0x18
      [] op =  25 -> <<"ORA", "ABSOLUTEY", 3, 4, "PageBoundryCrossed">>   \* 0x19
      [] op =  29 -> <<"ORA", "ABSOLUTEX", 3, 4, "PageBoundryCrossed">>   \* 0x1D
      [] op =  30 -> <<"ASL", "ABSOLUTEX", 3, 7, "NONE">>   \* 0x1E
      [] op =  32 -> <<"JSR", "ABSOLUTE", 3, 6, "NONE">>   \* 0x20
      [] op =  33 -> <<"AND", "INDIRECTX", 2, 6, "NONE">>   \* 0x21
      [] op =  36 -> <<"BIT", "ZEROPAGE", 2, 3, "NONE">>   \* 0x24
      [] op =  37 -> <<"AND", "ZEROPAGE", 2, 3, "NONE">>   \* 0x25
      [] op =  38 -> <<"ROL", "ZEROPAGE", 2, 5, "NONE">>   \* 0x26
      [] op =  40 -> <<"PLP", "IMPLIED", 1, 4, "NONE">>   \* 0x28
      [] op =  41 -> <<"AND", "IMMEDIATE", 2, 2, "NONE">>   \* 0x29
      [] op =  42 -> <<"ROL", "ACCUMULATOR", 1, 2, "NONE">>   \* 0x2A
      [] op =  44 -> <<"BIT", "ABSOLUTE", 3, 4, "NONE">>   \* 0x2C
      [] op =  45 -> <<"AND", "ABSOLUTE", 3, 4, "NONE">>   \* 0x2D
      [] op =  46 -> <<"ROL", "ABSOLUTE", 3, 6, "NONE">>   \* 0x2E
      [] op =  48 -> <<"BMI", "RELATIVE", 2, 2, "BranchOccursOn">>   \* 0x30
      [] op =  49 -> <<"AND", "INDIRECTY", 2, 5, "PageBoundryCrossed">>   \* 0x31
      [] op =  53 -> <<"AND", "ZEROPAGEX", 2, 4, "NONE">>   \* 0x35
      [] op =  54 -> <<"ROL", "ZEROPAGEX", 2, 6, "NONE">>   \* 0x36
      [] op =  56 -> <<"SEC", "IMPLIED", 1, 2, "NONE">>   \* 0x38
      [] op =  57 -> <<"AND", "ABSOLUTEY", 3, 4, "PageBoundryCrossed">>   \* 0x39
      [] op =  61 -> <<"AND", "ABSOLUTEX", 3, 4, "PageBoundryCrossed">>   \* 0x3D
      [] op =  62 -> <<"ROL", "ABSOLUTEX", 3, 7, "NONE">>   \* 0x3E
      [] op =  64 -> <<"RTI", "IMPLIED", 1, 6, "NONE">>   \* 0x40
      [] op =  65 -> <<"EOR", "INDIRECTX", 2, 6, "NONE">>   \* 0x41
      [] op =  69 -> <<"EOR", "ZEROPAGE", 2, 3, "NONE">>   \* 0x45
      [] op =  70 -> <<"LSR", "ZEROPAGE", 2, 5, "NONE">>   \* 0x46
      [] op =  72 -> <<"PHA", "IMPLIED", 1, 3, "NONE">>   \* 0x48
      [] op =  73 -> <<"EOR", "IMMEDIATE", 2, 2, "NONE">>   \* 0x49
      [] op =  74 -> <<"LSR", "ACCUMULATOR", 1, 2, "NONE">>   \* 0x4A
      [] op =  76 -> <<"JMP", "ABSOLUTE", 3, 3, "NONE">>   \* 0x4C
      [] op =  77 -> <<"EOR", "ABSOLUTE", 3, 4, "NONE">>   \* 0x4D
      [] op =  78 -> <<"LSR", "ABSOLUTE", 3, 6, "NONE">>   \* 0x4E
      [] op =  80 -> <<"BVC", "RELATIVE", 2, 2, "BranchOccursOn">>   \* 0x50
      [] op =  81 -> <<"EOR", "INDIRECTY", 2, 5, "PageBoundryCrossed">>   \* 0x51
      [] op =  85 -> <<"EOR", "ZEROPAGEX", 2, 4, "NONE">>   \* 0x55
      [] op =  86 -> <<"LSR", "ZEROPAGEX", 2, 6, "NONE">>   \* 0x56
      [] op =  88 -> <<"CLI", "IMPLIED", 1, 2, "NONE">>   \* 0x58
      [] op =  89 -> <<"EOR", "ABSOLUTEY", 3, 4, "PageBoundryCrossed">>   \* 0x59
      [] op =  93 -> <<"EOR", "ABSOLUTEX", 3, 4, "PageBoundryCrossed">>   \* 0x5D
      [] op =  94 -> <<"LSR", "ABSOLUTEX", 3, 7, "NONE">>   \* 0x5E
      [] op =  96 -> <<"RTS", "IMPLIED", 1, 6, "NONE">>   \* 0x60
      [] op =  97 -> <<"ADC", "INDIRECTX", 2, 6, "NONE">>   \* 0x61
      [] op = 101 -> <<"ADC", "ZEROPAGE", 2, 3, "NONE">>   \* 0x65
      [] op = 102 -> <<"ROR", "ZEROPAGE", 2, 5, "NONE">>   \* 0x66
      [] op = 104 -> <<"PLA", "IMPLIED", 1, 4, "NONE">>   \* 0x68
      [] op = 105 -> <<"ADC", "IMMEDIATE", 2, 2, "NONE">>   \* 0x69
      [] op = 106 -> <<"ROR", "ACCUMULATOR", 1, 2, "NONE">>   \* 0x6A
      [] op = 108 -> <<"JMP", "INDIRECT", 3, 5, "NONE">>   \* 0x6C
      [] op = 109 -> <<"ADC", "ABSOLUTE", 3, 4, "NONE">>   \* 0x6D
      [] op = 110 -> <<"ROR", "ABSOLUTE", 3, 6, "NONE">>   \* 0x6E
      [] op = 112 -> <<"BVS", "RELATIVE", 2, 2, "BranchOccursOn">>   \* 0x70
      [] op = 113 -> <<"ADC", "INDIRECTY", 2, 5, "PageBoundryCrossed">>   \* 0x71
      [] op = 117 -> <<"ADC", "ZEROPAGEX", 2, 4, "NONE">>   \* 0x75
      [] op = 118 -> <<"ROR", "ZEROPAGEX", 2, 6, "NONE">>   \* 0x76
      [] op = 120 -> <<"SEI", "IMPLIED", 1, 2, "NONE">>   \* 0x78
      [] op = 121 -> <<"ADC", "ABSOLUTEY", 3, 4, "PageBoundryCrossed">>   \* 0x79
      [] op = 125 -> <<"ADC", "ABSOLUTEX", 3, 4, "PageBoundryCrossed">>   \* 0x7D
      [] op = 126 -> <<"ROR", "ABSOLUTEX", 3, 7, "NONE">>   \* 0x7E
      [] op = 129 -> <<"STA", "INDIRECTX", 2, 6, "NONE">>   \* 0x81
      [] op = 132 -> <<"STY", "ZEROPAGE", 2, 3, "NONE">>   \* 0x84
      [] op = 133 -> <<"STA", "ZEROPAGE", 2, 3, "NONE">>   \* 0x85
      [] op = 134 -> <<"STX", "ZEROPAGE", 2, 3, "NONE">>   \* 0x86
      [] op = 136 -> <<"DEY", "IMPLIED", 1, 2, "NONE">>   \* 0x88
      [] op = 138 -> <<"TXA", "IMPLIED", 1, 2, "NONE">>   \* 0x8A
      [] op = 140 -> <<"STY", "ABSOLUTE", 3, 4, "NONE">>   \* 0x8C
      [] op = 141 -> <<"STA", "ABSOLUTE", 3, 4, "NONE">>   \* 0x8D
      [] op = 142 -> <<"STX", "ABSOLUTE", 3, 4, "NONE">>   \* 0x8E
      [] op = 144 -> <<"BCC", "RELATIVE", 2, 2, "BranchOccursOn">>   \* 0x90
      [] op = 145 -> <<"STA", "INDIRECTY", 2, 6, "NONE">>   \* 0x91
      [] op = 148 -> <<"STY", "ZEROPAGEX", 2, 4, "NONE">>   \* 0x94
      [] op = 149 -> <<"STA", "ZEROPAGEX", 2, 4, "NONE">>   \* 0x95
      [] op = 150 -> <<"STX", "ZEROPAGEY", 2, 4, "NONE">>   \* 0x96
      [] op = 152 -> <<"TYA", "IMPLIED", 1, 2, "NONE">>   \* 0x98
      [] op = 153 -> <<"STA", "ABSOLUTEY", 3, 5, "NONE">>   \* 0x99
      [] op = 154 -> <<"TXS", "IMPLIED", 1, 2, "NONE">>   \* 0x9A
      [] op = 157 -> <<"STA", "ABSOLUTEX", 3, 5, "NONE">>   \* 0x9D
      [] op = 160 -> <<"LDY", "IMMEDIATE", 2, 2, "NONE">>   \* 0xA0
      [] op = 161 -> <<"LDA", "INDIRECTX", 2, 6, "NONE">>   \* 0xA1
      [] op = 162 -> <<"LDX", "IMMEDIATE", 2, 2, "NONE">>   \* 0xA2
      [] op = 164 -> <<"LDY", "ZEROPAGE", 2, 3, "NONE">>   \* 0xA4
      [] op = 165 -> <<"LDA", "ZEROPAGE", 2, 3, "NONE">>   \* 0xA5
      [] op = 166 -> <<"LDX", "ZEROPAGE", 2, 3, "NONE">>   \* 0xA6
      [] op = 168 -> <<"TAY", "IMPLIED", 1, 2, "NONE">>   \* 0xA8
      [] op = 169 -> <<"LDA", "IMMEDIATE", 2, 2, "NONE">>   \* 0xA9
      [] op = 170 -> <<"TAX", "IMPLIED", 1, 2, "NONE">>   \* 0xAA
      [] op = 172 -> <<"LDY", "ABSOLUTE", 3, 4, "NONE">>   \* 0xAC
      [] op = 173 -> <<"LDA", "ABSOLUTE", 3, 4, "NONE">>   \* 0xAD
      [] op = 174 -> <<"LDX", "ABSOLUTE", 3, 4, "NONE">>   \* 0xAE
      [] op = 176 -> <<"BCS", "RELATIVE", 2, 2, "BranchOccursOn">>   \* 0xB0
      [] op = 177 -> <<"LDA", "INDIRECTY", 2, 5, "PageBoundryCrossed">>   \* 0xB1
      [] op = 180 -> <<"LDY", "ZEROPAGEX", 2, 4, "NONE">>   \* 0xB4
      [] op = 181 -> <<"LDA", "ZEROPAGEX", 2, 4, "NONE">>   \* 0xB5
      [] op = 182 -> <<"LDX", "ZEROPAGEY", 2, 4, "NONE">>   \* 0xB6
      [] op = 184 -> <<"CLV", "IMPLIED", 1, 2, "NONE">>   \* 0xB8
      [] op = 185 -> <<"LDA", "ABSOLUTEY", 3, 4, "PageBoundryCrossed">>   \* 0xB9
      [] op = 186 -> <<"TSX", "IMPLIED", 1, 2, "NONE">>   \* 0xBA
      [] op = 188 -> <<"LDY", "ABSOLUTEX", 3, 4, "PageBoundryCrossed">>   \* 0xBC
      [] op = 189 -> <<"LDA", "ABSOLUTEX", 3, 4, "PageBoundryCrossed">>   \* 0xBD
      [] op = 190 -> <<"LDX", "ABSOLUTEY", 3, 4, "PageBoundryCrossed">>   \* 0xBE
      [] op = 192 -> <<"CPY", "IMMEDIATE", 2, 2, "NONE">>   \* 0xC0
      [] op = 193 -> <<"CMP", "INDIRECTX", 2, 6, "NONE">>   \* 0xC1
      [] op = 196 -> <<"CPY", "ZEROPAGE", 2, 3, "NONE">>   \* 0xC4
      [] op = 197 -> <<"CMP", "ZEROPAGE", 2, 3, "NONE">>   \* 0xC5
      [] op = 198 -> <<"DEC", "ZEROPAGE", 2, 5, "NONE">>   \* 0xC6
      [] op = 200 -> <<"INY", "IMPLIED", 1, 2, "NONE">>   \* 0xC8
      [] op = 201 -> <<"CMP", "IMMEDIATE", 2, 2, "NONE">>   \* 0xC9
      [] op = 202 -> <<"DEX", "IMPLIED", 1, 2, "NONE">>   \* 0xCA
      [] op = 204 -> <<"CPY", "ABSOLUTE", 3, 4, "NONE">>   \* 0xCC
      [] op = 205 -> <<"CMP", "ABSOLUTE", 3, 4, "NONE">>   \* 0xCD
      [] op = 206 -> <<"DEC", "ABSOLUTE", 3, 6, "NONE">>   \* 0xCE
      [] op = 208 -> <<"BNE", "RELATIVE", 2, 2, "BranchOccursOn">>   \* 0xD0
      [] op = 209 -> <<"CMP", "INDIRECTY", 2, 5, "PageBoundryCrossed">>   \* 0xD1
      [] op = 213 -> <<"CMP", "ZEROPAGEX", 2, 4, "NONE">>   \* 0xD5
      [] op = 214 -> <<"DEC", "ZEROPAGEX", 2, 6, "NONE">>   \* 0xD6
      [] op = 216 -> <<"CLD", "IMPLIED", 1, 2, "NONE">>   \* 0xD8
      [] op = 217 -> <<"CMP", "ABSOLUTEY", 3, 4, "PageBoundryCrossed">>   \* 0xD9
      [] op = 221 -> <<"CMP", "ABSOLUTEX", 3, 4, "PageBoundryCrossed">>   \* 0xDD
      [] op = 222 -> <<"DEC", "ABSOLUTEX", 3, 7, "NONE">>   \* 0xDE
      [] op = 224 -> <<"CPX", "IMMEDIATE", 2, 2, "NONE">>   \* 0xE0
      [] op = 225 -> <<"SBC", "INDIRECTX", 2, 6, "NONE">>   \* 0xE1
      [] op = 228 -> <<"CPX", "ZEROPAGE", 2, 3, "NONE">>   \* 0xE4
      [] op = 229 -> <<"SBC", "ZEROPAGE", 2, 3, "NONE">>   \* 0xE5
      [] op = 230 -> <<"INC", "ZEROPAGE", 2, 5, "NONE">>   \* 0xE6
      [] op = 232 -> <<"INX", "IMPLIED", 1, 2, "NONE">>   \* 0xE8
      [] op = 233 -> <<"SBC", "IMMEDIATE", 2, 2, "NONE">>   \* 0xE9
      [] op = 234 -> <<"NOP", "IMPLIED", 1, 2, "NONE">>   \* 0xEA
      [] op = 236 -> <<"CPX", "ABSOLUTE", 3, 4, "NONE">>   \* 0xEC
      [] op = 237 -> <<"SBC", "ABSOLUTE", 3, 4, "NONE">>   \* 0xED
      [] op = 238 -> <<"INC", "ABSOLUTE", 3, 6, "NONE">>   \* 0xEE
      [] op = 240 -> <<"BEQ", "RELATIVE", 2, 2, "BranchOccursOn">>   \* 0xF0
      [] op = 241 -> <<"SBC", "INDIRECTY", 2, 5, "PageBoundryCrossed">>   \* 0xF1
      [] op = 245 -> <<"SBC", "ZEROPAGEX", 2, 4, "NONE">>   \* 0xF5
      [] op = 246 -> <<"INC", "ZEROPAGEX", 2, 6, "NONE">>   \* 0xF6
      [] op = 248 -> <<"SED", "IMPLIED", 1, 2, "NONE">>   \* 0xF8
      [] op = 249 -> <<"SBC", "ABSOLUTEY", 3, 4, "PageBoundryCrossed">>   \* 0xF9
      [] op = 253 -> <<"SBC", "ABSOLUTEX", 3, 4, "PageBoundryCrossed">>   \* 0xFD
      [] op = 254 -> <<"INC", "ABSOLUTEX", 3, 7, "NONE">>   \* 0xFE
      [] OTHER -> NoDescriptor  ]

LegalOpcodes == {b \in Byte : Reference6502[b] # NoDescriptor}

Returned == pc \in {"returned", "charged"}

\* C1: for every documented opcode byte, the tuple decode_opcode returns equals
\* that opcode's entry in the published reference table, field by field.
C1_MatchesReference ==
    Returned => result = Reference6502[opcode]

\* C2: decode_opcode returns a descriptor for exactly the 151 legal opcode
\* bytes; each of the other 105 bytes ends in the error-and-panic arm and never
\* yields a descriptor.
C2_ExactlyLegalDecoded ==
    /\ Cardinality(LegalOpcodes) = 151
    /\ Cardinality(Byte \ LegalOpcodes) = 105
    /\ {2, 3, 4, 255} \cap LegalOpcodes = {}
    /\ Returned => opcode \in LegalOpcodes /\ result \in Descriptor
    /\ pc \in {"error", "panicked"} => opcode \notin LegalOpcodes /\ result = NoDescriptor
    /\ \A b \in Byte : ENABLED DecodeReturn(b) <=> CanCall /\ b \in LegalOpcodes
    /\ \A b \in Byte : ENABLED DecodeError(b) <=> CanCall /\ b \notin LegalOpcodes

C2_Witness ==
    pc = "panicked" /\ opcode = 255 /\ result = NoDescriptor

\* byte length mandated by the addressing mode
LengthOfMode(mode) ==
    CASE mode \in {"IMPLIED", "ACCUMULATOR"} -> 1
      [] mode \in {"ZEROPAGE", "ZEROPAGEX", "ZEROPAGEY", "RELATIVE",
                   "INDIRECTX", "INDIRECTY", "IMMEDIATE"} -> 2
      [] mode \in {"ABSOLUTE", "ABSOLUTEX", "ABSOLUTEY", "INDIRECT"} -> 3

\* C3: every returned descriptor's byte length is the one fixed by its
\* addressing mode (1 for implied/accumulator, 2 for the zero-page, relative,
\* indirect-indexed and immediate modes, 3 for the absolute modes and indirect).
C3_LengthFixedByMode ==
    Returned => BytesOf(result) = LengthOfMode(ModeOf(result))

BranchOpcodes == {16, 48, 80, 112, 144, 176, 208, 240}

C5_PageCrossCycles ==
    /\ pc = "charged" /\ OopsOf(result) = "PageBoundryCrossed" =>
          charged = CyclesOf(result)
                    + (IF ((facts.base + facts.index) % 65536) \div 256
                            # facts.base \div 256 THEN 1 ELSE 0)
    /\ Returned /\ opcode = 189 =>
          CyclesOf(result) = 4 /\ OopsOf(result) = "PageBoundryCrossed"
    /\ pc = "charged" /\ opcode = 189 /\ facts.base = 8447 /\ facts.index = 1 =>
          charged = 5
    /\ pc = "charged" /\ opcode = 189 /\ facts.base = 8192 /\ facts.index = 1 =>
          charged = 4

C5_Witness ==
    /\ pc = "charged" /\ opcode = 189
    /\ facts.base = 8447 /\ facts.index = 1
    /\ charged = 5

\* C6: every descriptor tagged page-boundary-crossed has mode ABSOLUTEX,
\* ABSOLUTEY or INDIRECTY; no other mode carries a page-crossing penalty.
C6_PageCrossModes ==
    Returned /\ OopsOf(result) = "PageBoundryCrossed" =>
        ModeOf(result) \in {"ABSOLUTEX", "ABSOLUTEY", "INDIRECTY"}

C6_Witness ==
    /\ pc = "returned" /\ opcode = 17
    /\ ModeOf(result) = "INDIRECTY" /\ OopsOf(result) = "PageBoundryCrossed"

\* C8: every returned descriptor has byte length in 1..3 and base cycle count
\* in 2..7.
C8_FieldRanges ==
    Returned => BytesOf(result) \in 1..3 /\ CyclesOf(result) \in 2..7

C8_Witness ==
    pc = "returned" /\ BytesOf(result) = 3 /\ CyclesOf(result) = 7

\* C9: the INDIRECT mode is produced only for JMP: the only opcode decoding to
\* INDIRECT is 0x6C, its mnemonic is JMP and it is 3 bytes long.
C9_IndirectOnlyJmp ==
    Returned /\ ModeOf(result) = "INDIRECT" =>
        opcode = 108 /\ InstrOf(result) = "JMP" /\ BytesOf(result) = 3

C9_Witness ==
    pc = "returned" /\ opcode = 108 /\ ModeOf(result) = "INDIRECT"

\* value of one upper-case hexadecimal digit
HexValue(c) == CHOOSE i \in 0..15 : HexDigits[i + 1] = c

RECURSIVE ParseHex(_)
ParseHex(s) ==
    IF s = <<>> THEN 0
    ELSE ParseHex(SubSeq(s, 1, Len(s) - 1)) * 16 + HexValue(s[Len(s)])

\* the byte value a report carries: the hexadecimal number after the 0x prefix
ReportedValue(r) == ParseHex(SubSeq(r.arg, 3, Len(r.arg)))

\* C10: on an illegal byte an error report carrying that byte's value is
\* emitted before the panic; the panic is never reached without the report,
\* and no report is emitted for a legal byte.
C10_ReportBeforePanic ==
    /\ pc \in {"error", "panicked"} =>
          /\ Len(log) = 1
          /\ log[1].level = "ERROR"
          /\ SubSeq(log[1].arg, 1, 2) = <<"0", "x">>
          /\ Len(log[1].arg) > 2
          /\ ReportedValue(log[1]) = opcode
    /\ pc \in {"idle", "returned", "charged"} => log = <<>>

C10_Witness ==
    /\ pc = "panicked" /\ opcode = 255
    /\ log = <<error(255)>>
    /\ log[1].arg = <<"0", "x", "F", "F">>

BranchMnemonics == {"BCC", "BCS", "BEQ", "BMI", "BNE", "BPL", "BVC", "BVS"}

\* C12: a returned descriptor carries the branch-taken tag (BranchOccursOn)
\* exactly when its mode is RELATIVE, which is exactly when its mnemonic is
\* one of the eight conditional branches.
C12_BranchTagIffRelative ==
    Returned =>
        /\ OopsOf(result) = "BranchOccursOn" <=> ModeOf(result) = "RELATIVE"
        /\ ModeOf(result) = "RELATIVE" <=> InstrOf(result) \in BranchMnemonics

\* instruction and byte counts of the bundled programs
ExpectedLines(p) ==
    CASE p = "program_tolower" -> 16
      [] p = "program_helloworld" -> 6
      [] p = "load_program_stack_operations" -> 7
      [] p = "load_program_ADC" -> 8

ExpectedBytes(p) ==
    CASE p = "program_tolower" -> 27
      [] p = "program_helloworld" -> 15
      [] p = "load_program_stack_operations" -> 9
      [] p = "load_program_ADC" -> 12

\* C11: for each bundled loader the returned count (16, 6, 7, 8) is the number
\* of instructions written: decoding from ROM offset 0 and advancing by each
\* descriptor's byte length never meets an illegal opcode, and after exactly
\* the returned number of steps the offset equals the number of bytes written
\* (27, 15, 9, 12).
C11_CountIsInstructions ==
    program # "none" =>
        /\ lines = ExpectedLines(program)
        /\ Len(rom) = ExpectedBytes(program)
        /\ pc # "panicked" /\ log = <<>>
        /\ steps < lines =>
              romOffset < Len(rom) /\ decode_opcode(RomAt(romOffset)) # NoDescriptor
        /\ steps = lines => romOffset = Len(rom)
        /\ steps <= lines

C11_Witness ==
    /\ program = "program_tolower" /\ pc = "returned"
    /\ steps = 16 /\ romOffset = 27 /\ opcode = 96

====
